---- MODULE Spec2Model ----
(***************************************************************************)
(* Model of gesture_train_model.ipynb: the data-preparation cell (CSV      *)
(* rows -> labels / handedness / landmark array -> per-sample bounding-box *)
(* normalization -> 64-wide feature rows), calc_landmark_list, and the     *)
(* live capture loop.                                                      *)
(*                                                                         *)
(* Numbers.  The arrays are float64.  A float is modelled by the exact     *)
(* rational it denotes, a pair <<n, d>> in lowest terms with d > 0;        *)
(* <<0, 0>> is NaN (0/0) and <<1, 0>>, <<-1, 0>> are +inf, -inf (a/0).     *)
(* The inputs are dyadic rationals (quarters), so x - x_min is exact in    *)
(* float64 and the quotient below is the real number that float64 rounds.  *)
(***************************************************************************)
EXTENDS Integers, Sequences, FiniteSets

\* ------------------------------------------------------------------ bounds

\* Landmarks per hand in the model (MediaPipe reports 21).
NumLandmarks == 3

\* Iterations of the capture loop that are explored.
MaxFrames == 2

\* ------------------------------------------------------- program constants

num_classes == 6

class_names == <<"one", "two", "three", "four", "five", "other">>

max_num_hands == 1

\* The escape key code tested by the loop, and the modulus applied to k.
EscKey == 27

KeyMod == 256

\* The class index from which no label is drawn (np.argmax(result) < 5).
OverlayLimit == 5

\* Length of a flattened sample: the literal 63 = 3 * 21 of both reshapes.
FlatLen == 3 * NumLandmarks

\* -------------------------------------------------------------- arithmetic

Abs(n) == IF n < 0 THEN -n ELSE n

Sgn(n) == IF n < 0 THEN -1 ELSE IF n > 0 THEN 1 ELSE 0

RECURSIVE Gcd(_, _)
Gcd(a, b) == IF b = 0 THEN a ELSE Gcd(b, a % b)

\* The float n/d: lowest terms, positive denominator; d = 0 gives nan or inf.
Frac(n, d) ==
    IF d = 0 THEN <<Sgn(n), 0>>
    ELSE LET g == Gcd(Abs(n), Abs(d))
         IN  <<Sgn(d) * (n \div g), Abs(d) \div g>>

NaN == <<0, 0>>

IsFinite(a) == a[2] # 0

\* a - b on floats (nan propagates; inf - inf of one sign is nan).
FSub(a, b) ==
    IF IsFinite(a) /\ IsFinite(b) THEN Frac(a[1] * b[2] - b[1] * a[2], a[2] * b[2])
    ELSE IF a = NaN \/ b = NaN \/ (a = b) THEN NaN
    ELSE IF IsFinite(b) THEN a ELSE <<-b[1], 0>>

\* Mutant of FDiv: a zero divisor is guarded and the quotient clamped to 0.
FDivClamped(a, b) ==
    IF IsFinite(a) /\ IsFinite(b)
    THEN IF b[1] = 0 THEN <<0, 1>> ELSE Frac(a[1] * b[2], a[2] * b[1])
    ELSE <<0, 0>>

\* a / b on floats, numpy semantics: 0/0 = nan, a/0 = +-inf (a warning, no error).
FDiv(a, b) ==
    IF IsFinite(a) /\ IsFinite(b) THEN Frac(a[1] * b[2], a[2] * b[1])
    ELSE IF a = NaN \/ b = NaN \/ (~IsFinite(a) /\ ~IsFinite(b)) THEN NaN
    ELSE IF IsFinite(a) THEN Frac(0, 1) ELSE <<a[1] * (IF b[1] < 0 THEN -1 ELSE 1), 0>>

\* a <= b on finite floats.
FLe(a, b) == a[1] * b[2] <= b[1] * a[2]

\* k * a on finite floats.
FMul(k, a) == Frac(k[1] * a[1], k[2] * a[2])

\* np.max / np.min of a non-empty sequence of finite floats.
RECURSIVE SeqMax(_)
SeqMax(s) ==
    IF Len(s) = 1 THEN s[1]
    ELSE LET m == SeqMax(Tail(s)) IN IF FLe(m, s[1]) THEN s[1] ELSE m

RECURSIVE SeqMin(_)
SeqMin(s) ==
    IF Len(s) = 1 THEN s[1]
    ELSE LET m == SeqMin(Tail(s)) IN IF FLe(s[1], m) THEN s[1] ELSE m

\* arr[:, c] of a 2-d array (c is the 0-based numpy column).
Col(arr, c) == [j \in 1..Len(arr) |-> arr[j][c + 1]]

\* arr with arr[:, c] = vals.
SetCol(arr, c, vals) == [j \in 1..Len(arr) |-> [arr[j] EXCEPT ![c + 1] = vals[j]]]

\* Mutant of Rescale: the minimum is not subtracted.
RescaleNoShift(col, lo, diff) == [j \in 1..Len(col) |-> FDiv(col[j], diff)]

\* Mutant of Rescale: the shifted value is not divided by the range.
RescaleNoDivide(col, lo, diff) == [j \in 1..Len(col) |-> FSub(col[j], lo)]

\* (col - lo) / diff, elementwise.
Rescale(col, lo, diff) == [j \in 1..Len(col) |-> FDiv(FSub(col[j], lo), diff)]

\* Mutant of Reshape: only x and y of every landmark are kept.
ReshapeXY(arr) ==
    [n \in 1..(2 * Len(arr)) |-> arr[((n - 1) \div 2) + 1][((n - 1) % 2) + 1]]

\* arr.reshape(63): row-major flattening of an (n, 3) array.
Reshape(arr) ==
    [k \in 1..(3 * Len(arr)) |-> arr[((k - 1) \div 3) + 1][((k - 1) % 3) + 1]]

\* ------------------------------------------------------------------- state

VARIABLES
    csv_rows,             \* the rows of training_0.csv .. training_5.csv, in file order
    data,                 \* the shuffled list of rows
    labels,               \* column 0 of every row
    handedness,           \* column 1 of every row, then the (n, 1) int array;
                          \* in the loop, the handedness index of the last hand
    hand_samples,         \* columns 2.. of every row, then the (n, 21, 3) float
                          \* array, then its (n, 63) reshape
    y,                    \* the one-hot label matrix
    x,                    \* the training input matrix
    ix,                   \* index of the normalization loop (1-based)
    pc,                   \* position in the notebook
    input_landmark_list,  \* what calc_landmark_list returned last
    live_row,             \* the training row the detected hand equals (0: none)
    frame,                \* number of loop iterations started
    valid,                \* cam.read()'s flag in the last iteration
    results,              \* hands.process()'s result in the last iteration
    k,                    \* cv2.waitKey()'s value in the last iteration
    result,               \* np.argmax of each model output of the last iteration
    calls,                \* the external calls of the last iteration, in order
    overlay,              \* per predicted hand, the text cv2.putText drew (or none)
    model,                \* the object bound to the name model
    model_file,           \* the content of my_model.h5 (empty: no such file)
    lifecycle,            \* the model operations executed so far, in order
    resources             \* how often each resource was acquired and released

prepVars == <<csv_rows, data, labels, handedness, hand_samples, y, x, ix, pc,
              input_landmark_list, live_row>>

loopVars == <<frame, valid, results, k, result, calls, overlay>>

cellVars == <<model, model_file, lifecycle, resources>>

vars == <<frame, valid, results, k, result, calls, overlay,
          csv_rows, data, labels, handedness, hand_samples, y, x, ix, pc,
          input_landmark_list, live_row,
          model, model_file, lifecycle, resources>>

\* No text drawn.
None == "none"

\* ------------------------------------------------------------------ inputs

\* A coordinate n/4 (exactly representable in float64).
Q(n) == Frac(n, 4)

\* The landmark positions [x, y, z] a sample is drawn from: two share an x,
\* two pairs share a y, z takes both signs.
Points ==
    { <<Q(0), Q(0), Q(0)>>, <<Q(1), Q(3), Q(-1)>>, <<Q(3), Q(3), Q(0)>>,
      <<Q(3), Q(1), Q(1)>>, <<Q(2), Q(1), Q(2)>> }

\* A CSV cell "[x, y, z]": the text of a list, not yet a list.
Cell(p) == [lit |-> p]

LabelTexts == {"0", "5"}

HandednessTexts == {"0", "1"}

\* Factors by which a second recording of the same hand is scaled.
Scales == {Frac(3, 1), Frac(1, 2)}

CsvRow(l, h, pts) == [label |-> l, handed |-> h, cells |-> [j \in 1..Len(pts) |-> Cell(pts[j])]]

ScalePoints(c, pts) == [j \in 1..Len(pts) |-> [i \in 1..3 |-> FMul(c, pts[j][i])]]

\* The labels of the six files training_0.csv .. training_5.csv.
AllLabelTexts == {"0", "1", "2", "3", "4", "5"}

\* Hands with landmark 1 at one position and the others at a second one (the
\* same position twice is a degenerate bounding box).
TwoPointHands ==
    { [j \in 1..NumLandmarks |-> IF j = 1 THEN p ELSE q] :
        p, q \in { <<Q(1), Q(3), Q(-1)>>, <<Q(2), Q(1), Q(2)>> } }

\* The files hold one row, or a row and a scaled recording of the same hand,
\* or two rows of any two classes, a left and a right hand.
Datasets ==
    { <<CsvRow(l, h, pts)>> :
        l \in LabelTexts, h \in HandednessTexts, pts \in [1..NumLandmarks -> Points] }
    \cup
    { <<CsvRow(l, h, pts), CsvRow(l, h, ScalePoints(c, pts))>> :
        l \in LabelTexts, h \in HandednessTexts, pts \in [1..NumLandmarks -> Points],
        c \in Scales }
    \cup
    { <<CsvRow(l1, "0", a), CsvRow(l2, "1", b)>> :
        l1 \in AllLabelTexts, l2 \in AllLabelTexts, a \in TwoPointHands, b \in TwoPointHands }

\* -------------------------------------------------------- data preparation

\* The permutations of 1..n (random.shuffle's possible outcomes).
Perms(n) == { f \in [1..n -> 1..n] : \A i, j \in 1..n : f[i] = f[j] => i = j }

\* int() of a CSV cell's text (astype('int'), to_categorical's dtype='int').
StrToInt(s) ==
    CASE s = "0" -> 0 [] s = "1" -> 1 [] s = "2" -> 2
      [] s = "3" -> 3 [] s = "4" -> 4 [] s = "5" -> 5

\* ast.literal_eval of a cell: the list the text denotes.
LiteralEval(cell) == cell.lit

\* Mutant of ToCategorical: the 1 is written one column to the left.
ToCategoricalOffByOne(ls) ==
    LET ints == [i \in 1..Len(ls) |-> StrToInt(ls[i])]
        ncol == 1 + (CHOOSE m \in {ints[i] : i \in 1..Len(ints)} :
                        \A i \in 1..Len(ints) : ints[i] <= m)
    IN  [i \in 1..Len(ls) |-> [c \in 1..ncol |-> IF c = ints[i] THEN 1 ELSE 0]]

\* np_utils.to_categorical(labels): as many columns as the largest label + 1.
ToCategorical(ls) ==
    LET ints == [i \in 1..Len(ls) |-> StrToInt(ls[i])]
        ncol == 1 + (CHOOSE m \in {ints[i] : i \in 1..Len(ints)} :
                        \A i \in 1..Len(ints) : ints[i] <= m)
    IN  [i \in 1..Len(ls) |-> [c \in 1..ncol |-> IF c = ints[i] + 1 THEN 1 ELSE 0]]

\* Mutant of NormalizeSample: z is rescaled by its own bounds as well.
NormalizeSampleAllColumns(hs, i) ==
    LET sample == hs[i]
        x_max  == SeqMax(Col(sample, 0))
        x_min  == SeqMin(Col(sample, 0))
        y_max  == SeqMax(Col(sample, 1))
        y_min  == SeqMin(Col(sample, 1))
        z_max  == SeqMax(Col(sample, 2))
        z_min  == SeqMin(Col(sample, 2))
        x_diff == FSub(x_max, x_min)
        y_diff == FSub(y_max, y_min)
        z_diff == FSub(z_max, z_min)
        hs1    == [hs EXCEPT ![i] = SetCol(hs[i], 0, Rescale(Col(hs[i], 0), x_min, x_diff))]
        hs2    == [hs1 EXCEPT ![i] = SetCol(hs1[i], 1, Rescale(Col(hs1[i], 1), y_min, y_diff))]
    IN  [hs2 EXCEPT ![i] = SetCol(hs2[i], 2, Rescale(Col(hs2[i], 2), z_min, z_diff))]

\* Mutant of NormalizeSample: the y bounds are read from column 0.
NormalizeSampleCopyPaste(hs, i) ==
    LET sample == hs[i]
        x_max  == SeqMax(Col(sample, 0))
        x_min  == SeqMin(Col(sample, 0))
        y_max  == SeqMax(Col(sample, 0))
        y_min  == SeqMin(Col(sample, 0))
        x_diff == FSub(x_max, x_min)
        y_diff == FSub(y_max, y_min)
        hs1    == [hs EXCEPT ![i] = SetCol(hs[i], 0, Rescale(Col(hs[i], 0), x_min, x_diff))]
    IN  [hs1 EXCEPT ![i] = SetCol(hs1[i], 1, Rescale(Col(hs1[i], 1), y_min, y_diff))]

\* One pass of the normalization loop body on hand_samples[i].
NormalizeSample(hs, i) ==
    LET sample == hs[i]
        x_max  == SeqMax(Col(sample, 0))
        x_min  == SeqMin(Col(sample, 0))
        y_max  == SeqMax(Col(sample, 1))
        y_min  == SeqMin(Col(sample, 1))
        x_diff == FSub(x_max, x_min)
        y_diff == FSub(y_max, y_min)
        hs1    == [hs EXCEPT ![i] = SetCol(hs[i], 0, Rescale(Col(hs[i], 0), x_min, x_diff))]
    IN  [hs1 EXCEPT ![i] = SetCol(hs1[i], 1, Rescale(Col(hs1[i], 1), y_min, y_diff))]

\* Mutant of Concatenate: the handedness column is appended last.
ConcatenateLast(hd, hs) == [i \in 1..Len(hs) |-> hs[i] \o <<Frac(hd[i][1], 1)>>]

\* np.concatenate((handedness, hand_samples), axis = 1): the ints become floats.
Concatenate(hd, hs) == [i \in 1..Len(hs) |-> <<Frac(hd[i][1], 1)>> \o hs[i]]

\* Mutant of CalcLandmarkList: y is rescaled with the bounds of x.
CalcLandmarkListSwapped(handed, landmarks) ==
    LET landmark_point_list ==
            [j \in 1..Len(landmarks) |->
                <<landmarks[j].x, landmarks[j].y, landmarks[j].z>>]
        max_val == [c \in 1..3 |-> SeqMax(Col(landmark_point_list, c - 1))]
        min_val == [c \in 1..3 |-> SeqMin(Col(landmark_point_list, c - 1))]
        x_max  == max_val[1]
        x_min  == min_val[1]
        y_max  == max_val[1]
        y_min  == min_val[1]
        x_diff == FSub(x_max, x_min)
        y_diff == FSub(y_max, y_min)
        l1 == SetCol(landmark_point_list, 0,
                     Rescale(Col(landmark_point_list, 0), x_min, x_diff))
        l2 == SetCol(l1, 1, Rescale(Col(l1, 1), y_min, y_diff))
    IN  <<Frac(handed, 1)>> \o Reshape(l2)

\* calc_landmark_list(handedness, landmarks).
CalcLandmarkList(handed, landmarks) ==
    LET landmark_point_list ==
            [j \in 1..Len(landmarks) |->
                <<landmarks[j].x, landmarks[j].y, landmarks[j].z>>]
        max_val == [c \in 1..3 |-> SeqMax(Col(landmark_point_list, c - 1))]
        min_val == [c \in 1..3 |-> SeqMin(Col(landmark_point_list, c - 1))]
        x_max  == max_val[1]
        x_min  == min_val[1]
        y_max  == max_val[2]
        y_min  == min_val[2]
        x_diff == FSub(x_max, x_min)
        y_diff == FSub(y_max, y_min)
        l1 == SetCol(landmark_point_list, 0,
                     Rescale(Col(landmark_point_list, 0), x_min, x_diff))
        l2 == SetCol(l1, 1, Rescale(Col(l1, 1), y_min, y_diff))
    IN  <<Frac(handed, 1)>> \o Reshape(l2)

\* The landmark objects the detector reports for a hand at positions pts.
Landmarks(pts) == [j \in 1..Len(pts) |-> [x |-> pts[j][1], y |-> pts[j][2], z |-> pts[j][3]]]

\* hands.process found no hand: multi_hand_landmarks is None, which the loop
\* only tests for truth; None is modelled by the (equally false) empty list.
NoDetection == [multi_hand_landmarks |-> <<>>, multi_handedness |-> <<>>]

\* Before the first iteration: valid, results, k and input_landmark_list are
\* not bound yet and hold placeholders (no frame, no hand, no key, no vector).
LoopIdle ==
    /\ frame = 0 /\ valid = FALSE /\ results = NoDetection /\ k = -1
    /\ result = <<>> /\ calls = <<>> /\ overlay = <<>>

\* The name model before the model cell has run, and the objects the cells
\* bind to it: Sequential() fitted `fits` times, or what load_model returned.
Unbound == [origin |-> "unbound", fits |-> 0]

\* No tracker, no camera, no window yet.
NoResources ==
    [hands_opened |-> 0, cam_opened |-> 0,
     hands_closed |-> 0, cam_released |-> 0, windows_destroyed |-> 0]

\* Before the model cell: no model, no file, nothing acquired.
CellIdle ==
    /\ model = Unbound /\ model_file = <<>> /\ lifecycle = <<>>
    /\ resources = NoResources

Init ==
    /\ csv_rows \in Datasets
    /\ data = <<>> /\ labels = <<>> /\ handedness = <<>> /\ hand_samples = <<>>
    /\ y = <<>> /\ x = <<>> /\ ix = 0
    /\ pc = "load"
    /\ input_landmark_list = <<>> /\ live_row = 0
    /\ LoopIdle
    /\ CellIdle

\* data = [] ... data += list(reader); random.shuffle(data)
LoadAndShuffle ==
    /\ pc = "load"
    /\ \E f \in Perms(Len(csv_rows)) :
          data' = [i \in 1..Len(csv_rows) |-> csv_rows[f[i]]]
    /\ pc' = "split"
    /\ UNCHANGED <<csv_rows, labels, handedness, hand_samples, y, x, ix,
                   input_landmark_list, live_row>>
    /\ UNCHANGED loopVars
    /\ UNCHANGED cellVars

\* Mutant of SplitColumns: the labels are taken from the rows as loaded, not
\* from the shuffled rows.
SplitColumnsLabelsUnshuffled ==
    /\ pc = "split"
    /\ labels' = [i \in 1..Len(csv_rows) |-> csv_rows[i].label]
    /\ handedness' = [i \in 1..Len(data) |-> data[i].handed]
    /\ hand_samples' = [i \in 1..Len(data) |-> data[i].cells]
    /\ pc' = "encode"
    /\ UNCHANGED <<csv_rows, data, y, x, ix, input_landmark_list, live_row>>
    /\ UNCHANGED loopVars
    /\ UNCHANGED cellVars

\* for row in data: labels.append(row[0]) ...
SplitColumns ==
    /\ pc = "split"
    /\ labels' = [i \in 1..Len(data) |-> data[i].label]
    /\ handedness' = [i \in 1..Len(data) |-> data[i].handed]
    /\ hand_samples' = [i \in 1..Len(data) |-> data[i].cells]
    /\ pc' = "encode"
    /\ UNCHANGED <<csv_rows, data, y, x, ix, input_landmark_list, live_row>>
    /\ UNCHANGED loopVars
    /\ UNCHANGED cellVars

\* y = to_categorical(np.array(labels)); handedness as an (n, 1) int array
EncodeColumns ==
    /\ pc = "encode"
    /\ y' = ToCategorical(labels)
    /\ handedness' = [i \in 1..Len(handedness) |-> <<StrToInt(handedness[i])>>]
    /\ pc' = "parse"
    /\ UNCHANGED <<csv_rows, data, labels, hand_samples, x, ix,
                   input_landmark_list, live_row>>
    /\ UNCHANGED loopVars
    /\ UNCHANGED cellVars

\* sample[ix] = ast.literal_eval(landmark); hand_samples = np.array(hand_samples)
ParseLandmarks ==
    /\ pc = "parse"
    /\ hand_samples' = [i \in 1..Len(hand_samples) |->
                          [j \in 1..Len(hand_samples[i]) |->
                              LiteralEval(hand_samples[i][j])]]
    /\ ix' = 1
    /\ pc' = "normalize"
    /\ UNCHANGED <<csv_rows, data, labels, handedness, y, x,
                   input_landmark_list, live_row>>
    /\ UNCHANGED loopVars
    /\ UNCHANGED cellVars

\* one iteration of: for ix, sample in enumerate(hand_samples)
NormalizeStep ==
    /\ pc = "normalize"
    /\ ix <= Len(hand_samples)
    /\ hand_samples' = NormalizeSample(hand_samples, ix)
    /\ ix' = ix + 1
    /\ UNCHANGED <<csv_rows, data, labels, handedness, y, x, pc,
                   input_landmark_list, live_row>>
    /\ UNCHANGED loopVars
    /\ UNCHANGED cellVars

\* hand_samples = hand_samples.reshape(n, 63); x = np.concatenate(...)
Assemble ==
    /\ pc = "normalize"
    /\ ix > Len(hand_samples)
    /\ \A i \in 1..Len(hand_samples) : 3 * Len(hand_samples[i]) = FlatLen
    /\ hand_samples' = [i \in 1..Len(hand_samples) |-> Reshape(hand_samples[i])]
    /\ x' = Concatenate(handedness, hand_samples')
    /\ pc' = "done"
    /\ UNCHANGED <<csv_rows, data, labels, handedness, y, ix,
                   input_landmark_list, live_row>>
    /\ UNCHANGED loopVars
    /\ UNCHANGED cellVars

\* calc_landmark_list on a detected hand that equals training row i:
\* the same handedness index and the same 21 positions.
LiveOnRow ==
    /\ pc = "done"
    /\ \E i \in 1..Len(data) :
          /\ input_landmark_list' =
                CalcLandmarkList(StrToInt(data[i].handed),
                                 Landmarks([j \in 1..Len(data[i].cells) |->
                                               LiteralEval(data[i].cells[j])]))
          /\ live_row' = i
    /\ UNCHANGED <<csv_rows, data, labels, handedness, hand_samples, y, x, ix, pc>>
    /\ UNCHANGED loopVars
    /\ UNCHANGED cellVars

Next ==
    \/ LoadAndShuffle
    \/ SplitColumns
    \/ EncodeColumns
    \/ ParseLandmarks
    \/ NormalizeStep
    \/ Assemble
    \/ LiveOnRow

Spec == Init /\ [][Next]_vars

\* ------------------------------------------------- claims: the normalizer

Zero == Frac(0, 1)

One == Frac(1, 1)

Half == Frac(1, 2)

\* The positions of row i of data as the CSV holds them (before any rescaling).
OrigPts(i) == [j \in 1..Len(data[i].cells) |-> data[i].cells[j].lit]

\* The original values of component c (1: x, 2: y, 3: z) of row i.
OrigVals(i, c) == {OrigPts(i)[j][c] : j \in 1..Len(data[i].cells)}

Lo(S) == CHOOSE m \in S : \A v \in S : FLe(m, v)

Hi(S) == CHOOSE m \in S : \A v \in S : FLe(v, m)

\* (v - min) / (max - min) over the original values of component c of row i.
Expected(i, j, c) ==
    FDiv(FSub(OrigPts(i)[j][c], Lo(OrigVals(i, c))),
         FSub(Hi(OrigVals(i, c)), Lo(OrigVals(i, c))))

NonDegenerate(i) == Cardinality(OrigVals(i, 1)) > 1 /\ Cardinality(OrigVals(i, 2)) > 1

\* The training loop has rescaled sample i and hand_samples is still the
\* (n, 21, 3) array.
TrainNormalized(i) == pc = "normalize" /\ i < ix

\* Every value lies in [0, 1], and 0 and 1 are both taken.
UnitRange(S) ==
    /\ \A v \in S : IsFinite(v) /\ FLe(Zero, v) /\ FLe(v, One)
    /\ Zero \in S
    /\ One \in S

\* Component c of every landmark of a 64-wide feature vector.
FeatureVals(vec, c) == {vec[1 + 3 * (j - 1) + c] : j \in 1..NumLandmarks}

\* C1: for a sample whose x values are not all equal and whose y values are
\* not all equal, the normalized x values (and the normalized y values) lie
\* in [0, 1] with minimum 0 and maximum 1, in the training array, in the
\* training row of x and in calc_landmark_list's result.
C1_UnitBox ==
    \A i \in 1..Len(data) : NonDegenerate(i) =>
        /\ TrainNormalized(i) =>
              /\ UnitRange({hand_samples[i][j][1] : j \in 1..NumLandmarks})
              /\ UnitRange({hand_samples[i][j][2] : j \in 1..NumLandmarks})
        /\ pc = "done" =>
              UnitRange(FeatureVals(x[i], 1)) /\ UnitRange(FeatureVals(x[i], 2))
        /\ live_row = i =>
              /\ UnitRange(FeatureVals(input_landmark_list, 1))
              /\ UnitRange(FeatureVals(input_landmark_list, 2))

\* A non-degenerate sample with a value strictly inside (0, 1) has been
\* normalized by both routines.
C1_Witness ==
    /\ pc = "done"
    /\ live_row # 0
    /\ NonDegenerate(live_row)
    /\ Half \in FeatureVals(x[live_row], 1)
    /\ Half \in FeatureVals(input_landmark_list, 1)
    /\ ~(Zero \in OrigVals(live_row, 1))

\* C2: each x becomes (x - x_min)/(x_max - x_min) and each y becomes
\* (y - y_min)/(y_max - y_min), the bounds being those of the sample's own
\* original x values and, independently, original y values; x values
\* 1/4, 1/2, 3/4 (equally spaced, as 0.2, 0.4, 0.6) become 0, 1/2, 1.
C2_Formula ==
    \A i \in 1..Len(data) :
        /\ TrainNormalized(i) =>
              \A j \in 1..NumLandmarks :
                  /\ hand_samples[i][j][1] = Expected(i, j, 1)
                  /\ hand_samples[i][j][2] = Expected(i, j, 2)
        /\ live_row = i =>
              \A j \in 1..NumLandmarks :
                  /\ input_landmark_list[3 * j - 1] = Expected(i, j, 1)
                  /\ input_landmark_list[3 * j] = Expected(i, j, 2)
        /\ pc = "done" =>
              \A j \in 1..NumLandmarks :
                  /\ x[i][3 * j - 1] = Expected(i, j, 1)
                  /\ x[i][3 * j] = Expected(i, j, 2)
        /\ (TrainNormalized(i) /\ OrigVals(i, 1) = {Q(1), Q(2), Q(3)}) =>
              {hand_samples[i][j][1] : j \in 1..NumLandmarks} = {Zero, Half, One}
        /\ (pc = "done" /\ OrigVals(i, 1) = {Q(1), Q(2), Q(3)}) =>
              FeatureVals(x[i], 1) = {Zero, Half, One}

\* The sample with x values 1/4, 1/2, 3/4 and y values of another range has
\* been normalized by both routines.
C2_Witness ==
    /\ pc = "done"
    /\ live_row # 0
    /\ OrigVals(live_row, 1) = {Q(1), Q(2), Q(3)}
    /\ OrigVals(live_row, 2) = {Q(1), Q(3)}
    /\ FeatureVals(x[live_row], 1) = {Zero, Half, One}
    /\ FeatureVals(input_landmark_list, 1) = {Zero, Half, One}

\* C3: every training row of x and every result of calc_landmark_list has
\* length 1 + 3 * (number of landmarks): 64 for the 21 landmarks of a hand.
C3_Length ==
    /\ pc = "done" => \A i \in 1..Len(x) : Len(x[i]) = 1 + 3 * NumLandmarks
    /\ input_landmark_list # <<>> => Len(input_landmark_list) = 1 + 3 * NumLandmarks

C3_Witness ==
    /\ pc = "done"
    /\ Len(x) = 2
    /\ input_landmark_list # <<>>
    /\ Len(input_landmark_list) = 1 + 3 * NumLandmarks

\* The handedness flag followed by the normalized (x, y) pairs, z left out.
PairsVector(i) ==
    <<Frac(StrToInt(data[i].handed), 1)>> \o
    [n \in 1..(2 * NumLandmarks) |-> Expected(i, (n + 1) \div 2, 2 - (n % 2))]

\* C4 as stated: the feature vector is the handedness flag followed by the
\* normalized (x, y) pairs in landmark order, and holds no z coordinate.
C4_Original ==
    /\ pc = "done" => \A i \in 1..Len(x) : x[i] = PairsVector(i)
    /\ live_row # 0 => input_landmark_list = PairsVector(live_row)

\* The handedness flag followed by the (normalized x, normalized y, raw z)
\* triples in landmark order.
TriplesVector(i) ==
    <<Frac(StrToInt(data[i].handed), 1)>> \o
    [n \in 1..(3 * NumLandmarks) |->
        LET j == ((n - 1) \div 3) + 1
            c == ((n - 1) % 3) + 1
        IN  IF c = 3 THEN OrigPts(i)[j][3] ELSE Expected(i, j, c)]

\* C4 amended: the feature vector is the handedness flag followed by the 21
\* triples (normalized x, normalized y, original z) in landmark order: the z
\* coordinate of every landmark appears in it, unchanged.
C4_Triples ==
    /\ pc = "done" => \A i \in 1..Len(x) : x[i] = TriplesVector(i)
    /\ live_row # 0 => input_landmark_list = TriplesVector(live_row)

\* A sample with a non-zero z has been turned into a feature vector by both
\* routines.
C4_Witness ==
    /\ pc = "done"
    /\ live_row # 0
    /\ NonDegenerate(live_row)
    /\ \E j \in 1..NumLandmarks : x[live_row][3 * j + 1] = Q(-1)
    /\ \E j \in 1..NumLandmarks : input_landmark_list[3 * j + 1] = Q(2)

\* C5: for the same handedness and the same positions, calc_landmark_list
\* returns the row the training cell stored in x.
C5_SameRoutine ==
    live_row # 0 => input_landmark_list = x[live_row]

C5_Witness ==
    /\ live_row # 0
    /\ NonDegenerate(live_row)
    /\ input_landmark_list = x[live_row]
    /\ x[live_row][1] = One
    /\ Frac(1, 3) \in FeatureVals(x[live_row], 2)

\* Row j holds the hand of row i with every coordinate multiplied by c.
ScaledBy(i, j, c) ==
    /\ data[j].handed = data[i].handed
    /\ OrigPts(j) = ScalePoints(c, OrigPts(i))

\* C6 as stated: multiplying every coordinate of a non-degenerate sample by
\* a positive factor leaves the whole feature vector unchanged.
C6_Original ==
    pc = "done" =>
        \A i, j \in 1..Len(data) : \A c \in Scales :
            (NonDegenerate(i) /\ ScaledBy(i, j, c)) =>
                /\ x[j] = x[i]
                /\ live_row = j => input_landmark_list = x[i]

\* C6 amended: multiplying every coordinate of a non-degenerate sample by a
\* positive factor c leaves the handedness entry and the normalized x and y
\* entries of the feature vector unchanged and multiplies its z entries by c.
C6_ScaleXY ==
    pc = "done" =>
        \A i, j \in 1..Len(data) : \A c \in Scales :
            (NonDegenerate(i) /\ ScaledBy(i, j, c)) =>
                /\ x[j][1] = x[i][1]
                /\ \A m \in 1..NumLandmarks :
                      /\ x[j][3 * m - 1] = x[i][3 * m - 1]
                      /\ x[j][3 * m] = x[i][3 * m]
                      /\ x[j][3 * m + 1] = FMul(c, x[i][3 * m + 1])
                /\ live_row = j =>
                      /\ input_landmark_list[1] = x[i][1]
                      /\ \A m \in 1..NumLandmarks :
                            /\ input_landmark_list[3 * m - 1] = x[i][3 * m - 1]
                            /\ input_landmark_list[3 * m] = x[i][3 * m]
                            /\ input_landmark_list[3 * m + 1] = FMul(c, x[i][3 * m + 1])

\* A non-degenerate sample and its copy scaled by 3, with a non-zero z, have
\* both been turned into feature vectors.
C6_Witness ==
    /\ pc = "done"
    /\ Len(data) = 2
    /\ live_row = 2
    /\ NonDegenerate(1)
    /\ ScaledBy(1, 2, Frac(3, 1))
    /\ \E m \in 1..NumLandmarks : x[1][3 * m + 1] # Zero
    /\ Half \in FeatureVals(x[1], 1)

\* ------------------------------------------------------- live capture loop

\* Key codes cv2.waitKey(1) may return: -1 (no key), escape, 'c', and
\* escape with a modifier bit above the low byte.
Keys == {-1, 27, 99, 283}

\* The hands shown to the camera: landmark 1 at one position and the others
\* at a second one (the same position twice is a degenerate bounding box).
LivePoints == { <<Q(1), Q(3), Q(-1)>>, <<Q(2), Q(1), Q(2)>> }

LiveHands ==
    { [j \in 1..NumLandmarks |-> IF j = 1 THEN p ELSE q] : p, q \in LivePoints }

\* Mutant of HandDetections: the tracker reports up to two hands.
HandDetectionsTwoHands ==
    { [multi_hand_landmarks |-> [h \in 1..n |-> Landmarks(pts[h])],
       multi_handedness |-> [h \in 1..n |-> hd[h]]] :
        n \in 1..2,
        pts \in [1..2 -> LiveHands],
        hd \in [1..2 -> {0, 1}] }

\* hands.process found 1..max_num_hands hands, each with 21 landmarks, and
\* their handedness classification indexes.
HandDetections ==
    { [multi_hand_landmarks |-> [h \in 1..n |-> Landmarks(pts[h])],
       multi_handedness |-> [h \in 1..n |-> hd[h]]] :
        n \in 1..max_num_hands,
        pts \in [1..max_num_hands -> LiveHands],
        hd \in [1..max_num_hands -> {0, 1}] }

\* Mutant of LoopExits: the key code is compared without the modulus.
LoopExitsNoMod(key) == key = EscKey

\* if k%256 == 27: break
LoopExits(key) == key % KeyMod = EscKey

\* Mutant of OverlayText: the label is drawn for every class.
OverlayTextAlways(argmax) == class_names[argmax + 1]

\* if np.argmax(result) < 5: cv2.putText(img, class_names[np.argmax(result)], ...)
OverlayText(argmax) ==
    IF argmax < OverlayLimit THEN class_names[argmax + 1] ELSE None

\* The calls of the for-loop body for one hand whose prediction is argmax.
HandCalls(argmax) ==
    <<"mp_drawing.draw_landmarks", "calc_landmark_list", "model.predict">>
    \o (IF OverlayText(argmax) # None THEN <<"cv2.putText">> ELSE <<>>)

RECURSIVE HandsCalls(_)
HandsCalls(argmaxes) ==
    IF argmaxes = <<>> THEN <<>>
    ELSE HandCalls(Head(argmaxes)) \o HandsCalls(Tail(argmaxes))

\* Mutant of FrameCalls: the normalizer and the model run on every frame.
FrameCallsUnguarded(res, argmaxes) ==
    <<"cam.read", "hands.process">>
    \o HandsCalls(IF argmaxes = <<>> THEN <<0>> ELSE argmaxes) \o <<"cv2.imshow">>
    \o <<"cv2.waitKey">>

\* Mutant of FrameCalls: the window is updated on every frame that was read.
FrameCallsAlwaysShow(res, argmaxes) ==
    <<"cam.read", "hands.process">>
    \o (IF res.multi_hand_landmarks # <<>> THEN HandsCalls(argmaxes) ELSE <<>>)
    \o <<"cv2.imshow", "cv2.waitKey">>

\* Mutant of FrameCalls: the frame is shown before the hands are handled.
FrameCallsShowFirst(res, argmaxes) ==
    <<"cam.read", "hands.process">>
    \o (IF res.multi_hand_landmarks # <<>>
        THEN <<"cv2.imshow">> \o HandsCalls(argmaxes)
        ELSE <<>>)
    \o <<"cv2.waitKey">>

\* The calls of an iteration whose read succeeded, in program order.
FrameCalls(res, argmaxes) ==
    <<"cam.read", "hands.process">>
    \o (IF res.multi_hand_landmarks # <<>>
        THEN HandsCalls(argmaxes) \o <<"cv2.imshow">>
        ELSE <<>>)
    \o <<"cv2.waitKey">>

\* if k%256 == 27: print("Escape hit, closing..."); break
EscapeCalls(key) == IF LoopExits(key) THEN <<"print">> ELSE <<>>

\* ------------------------------------------- model cells and resources

\* The model after the model cell: a Sequential fitted by one fit call.
TrainedModel == [origin |-> "Sequential", fits |-> 1]

\* What keras.models.load_model returns for a saved model.
LoadedFrom(saved) == [origin |-> "load_model", fits |-> saved.fits]

\* The tracker and the camera are open, nothing is released yet.
Acquired == [NoResources EXCEPT !.hands_opened = 1, !.cam_opened = 1]

\* model = Sequential(); model.add(...); model.compile(...); model.fit(x, y, ...)
BuildAndFit ==
    /\ pc = "done"
    /\ model' = [origin |-> "Sequential", fits |-> 1]
    /\ lifecycle' = lifecycle \o <<"Sequential", "fit">>
    /\ pc' = "fitted"
    /\ UNCHANGED <<csv_rows, data, labels, handedness, hand_samples, y, x, ix,
                   input_landmark_list, live_row>>
    /\ UNCHANGED loopVars
    /\ UNCHANGED <<model_file, resources>>

\* plot_result(history); model.save('my_model.h5')
SaveModel ==
    /\ pc = "fitted"
    /\ model_file' = <<model>>
    /\ lifecycle' = lifecycle \o <<"save">>
    /\ pc' = "saved"
    /\ UNCHANGED <<csv_rows, data, labels, handedness, hand_samples, y, x, ix,
                   input_landmark_list, live_row>>
    /\ UNCHANGED loopVars
    /\ UNCHANGED <<model, resources>>

\* Mutant of LoadModel: the saved model is not loaded, the name model keeps
\* the object of the model cell.
LoadModelSkipped ==
    /\ pc = "saved"
    /\ pc' = "loaded"
    /\ UNCHANGED <<csv_rows, data, labels, handedness, hand_samples, y, x, ix,
                   input_landmark_list, live_row>>
    /\ UNCHANGED loopVars
    /\ UNCHANGED <<model, lifecycle, model_file, resources>>

\* model = keras.models.load_model('my_model.h5')
LoadModel ==
    /\ pc = "saved"
    /\ model_file # <<>>
    /\ model' = LoadedFrom(model_file[1])
    /\ lifecycle' = lifecycle \o <<"load_model">>
    /\ pc' = "loaded"
    /\ UNCHANGED <<csv_rows, data, labels, handedness, hand_samples, y, x, ix,
                   input_landmark_list, live_row>>
    /\ UNCHANGED loopVars
    /\ UNCHANGED <<model_file, resources>>

\* hands = mp_hands.Hands(...); cam = cv2.VideoCapture(0)
AcquireResources ==
    /\ pc = "loaded"
    /\ resources' = [resources EXCEPT !.hands_opened = @ + 1, !.cam_opened = @ + 1]
    /\ pc' = "loop"
    /\ UNCHANGED <<csv_rows, data, labels, handedness, hand_samples, y, x, ix,
                   input_landmark_list, live_row>>
    /\ UNCHANGED loopVars
    /\ UNCHANGED <<model, model_file, lifecycle>>

\* Mutant of ReleaseResources: cam.release() is missing.
ReleaseResourcesNoCam ==
    /\ pc = "exited"
    /\ resources' = [resources EXCEPT !.hands_closed = @ + 1, !.windows_destroyed = @ + 1]
    /\ pc' = "released"
    /\ UNCHANGED <<csv_rows, data, labels, handedness, hand_samples, y, x, ix,
                   input_landmark_list, live_row>>
    /\ UNCHANGED loopVars
    /\ UNCHANGED <<model, model_file, lifecycle>>

\* hands.close(); cam.release(); cv2.destroyAllWindows()
ReleaseResources ==
    /\ pc = "exited"
    /\ resources' = [resources EXCEPT !.hands_closed = @ + 1, !.cam_released = @ + 1,
                                      !.windows_destroyed = @ + 1]
    /\ pc' = "released"
    /\ UNCHANGED <<csv_rows, data, labels, handedness, hand_samples, y, x, ix,
                   input_landmark_list, live_row>>
    /\ UNCHANGED loopVars
    /\ UNCHANGED <<model, model_file, lifecycle>>

LiveInit ==
    /\ csv_rows = <<>> /\ data = <<>> /\ labels = <<>> /\ handedness = <<>>
    /\ hand_samples = <<>> /\ y = <<>> /\ x = <<>> /\ ix = 0
    /\ pc = "loop"
    /\ input_landmark_list = <<>> /\ live_row = 0
    /\ LoopIdle
    /\ model = LoadedFrom(TrainedModel) /\ model_file = <<TrainedModel>>
    /\ lifecycle = <<"Sequential", "fit", "save", "load_model">>
    /\ resources = Acquired

\* Mutant of FrameReadFails: the break is missing.
FrameReadFailsNoBreak ==
    /\ pc = "loop"
    /\ frame < MaxFrames
    /\ frame' = frame + 1
    /\ valid' = FALSE
    /\ calls' = <<"cam.read", "print">>
    /\ result' = <<>> /\ overlay' = <<>>
    /\ pc' = "loop"
    /\ UNCHANGED <<results, k, input_landmark_list, live_row>>
    /\ UNCHANGED <<csv_rows, data, labels, handedness, hand_samples, y, x, ix>>
    /\ UNCHANGED cellVars

\* An iteration whose cam.read() reports failure: print and break.
FrameReadFails ==
    /\ pc = "loop"
    /\ frame < MaxFrames
    /\ frame' = frame + 1
    /\ valid' = FALSE
    /\ calls' = <<"cam.read", "print">>
    /\ result' = <<>> /\ overlay' = <<>>
    /\ pc' = "exited"
    /\ UNCHANGED <<results, k, input_landmark_list, live_row>>
    /\ UNCHANGED <<csv_rows, data, labels, handedness, hand_samples, y, x, ix>>
    /\ UNCHANGED cellVars

\* The rest of an iteration whose cam.read() succeeded, for the detector's
\* result res and the key code the poll returns.
ProcessFrame(res, key) ==
    /\ results' = res
    /\ k' = key
    /\ IF res.multi_hand_landmarks # <<>>
       THEN \E argmaxes \in [1..Len(res.multi_hand_landmarks) -> 0..(num_classes - 1)] :
              /\ result' = argmaxes
              /\ overlay' = [h \in 1..Len(argmaxes) |-> OverlayText(argmaxes[h])]
              /\ input_landmark_list' =
                    CalcLandmarkList(
                        res.multi_handedness[1],
                        res.multi_hand_landmarks[Len(res.multi_hand_landmarks)])
              /\ handedness' = res.multi_handedness[1]
              /\ calls' = FrameCalls(res, argmaxes) \o EscapeCalls(key)
       ELSE /\ result' = <<>>
            /\ overlay' = <<>>
            /\ calls' = FrameCalls(res, <<>>) \o EscapeCalls(key)
            /\ UNCHANGED <<input_landmark_list, handedness>>
    /\ pc' = IF LoopExits(key) THEN "exited" ELSE "loop"

\* An iteration whose cam.read() succeeds: detect, then per hand draw,
\* normalize, predict and overlay, show the frame, poll the key.
FrameProcessed ==
    /\ pc = "loop"
    /\ frame < MaxFrames
    /\ frame' = frame + 1
    /\ valid' = TRUE
    /\ \E key \in Keys :
          \/ ProcessFrame(NoDetection, key)
          \/ \E res \in HandDetections : ProcessFrame(res, key)
    /\ UNCHANGED live_row
    /\ UNCHANGED <<csv_rows, data, labels, hand_samples, y, x, ix>>
    /\ UNCHANGED cellVars

LiveNext ==
    \/ FrameReadFails
    \/ FrameProcessed

LiveSpec == LiveInit /\ [][LiveNext]_vars

\* --------------------------------------------- the notebook, cells in order

\* The training files of the whole-notebook run: one row of class 0, one of
\* class 5.
NotebookDatasets ==
    { <<CsvRow("0", "1", a), CsvRow("5", "0", b)>> :
        a \in {[j \in 1..NumLandmarks |-> <<Q(j), Q(j * j), Q(1)>>]},
        b \in {[j \in 1..NumLandmarks |-> <<Q(0 - j), Q(j), Q(0)>>]} }

NotebookInit ==
    /\ csv_rows \in NotebookDatasets
    /\ data = <<>> /\ labels = <<>> /\ handedness = <<>> /\ hand_samples = <<>>
    /\ y = <<>> /\ x = <<>> /\ ix = 0
    /\ pc = "load"
    /\ input_landmark_list = <<>> /\ live_row = 0
    /\ LoopIdle
    /\ CellIdle

NotebookNext ==
    \/ LoadAndShuffle
    \/ SplitColumns
    \/ EncodeColumns
    \/ ParseLandmarks
    \/ NormalizeStep
    \/ Assemble
    \/ BuildAndFit
    \/ SaveModel
    \/ LoadModel
    \/ AcquireResources
    \/ FrameReadFails
    \/ FrameProcessed
    \/ ReleaseResources

NotebookSpec == NotebookInit /\ [][NotebookNext]_vars

\* ------------------------------------------------ claims: the capture loop

\* How often the last iteration made call c.
Count(c) == Cardinality({n \in 1..Len(calls) : calls[n] = c})

\* C7: every step of the loop is one iteration started while the loop runs;
\* the loop is left in exactly the iterations whose read fails or whose
\* polled key code is 27 modulo 256, and goes on to another capture in every
\* other iteration (no key, code -1, included).
C7_LoopExit ==
    [][ /\ pc = "loop"
        /\ frame' = frame + 1
        /\ (pc' = "exited") <=> (valid' = FALSE \/ k' % 256 = 27)
        /\ (pc' = "loop") <=> (valid' = TRUE /\ k' % 256 # 27) ]_vars

\* The loop went on after a first iteration and ended in the second on an
\* escape code with a bit set above the low byte.
C7_Witness ==
    /\ frame = 2
    /\ valid = TRUE
    /\ k = 283
    /\ pc = "exited"

\* C8: an iteration whose read fails prints the message and leaves the loop
\* without calling the detector, the normalizer, the model, the display or
\* the key poll, and leaves their last results as they were.
C8_ReadFailure ==
    [][ (frame' = frame + 1 /\ valid' = FALSE) =>
            /\ pc' = "exited"
            /\ calls' = <<"cam.read", "print">>
            /\ result' = <<>>
            /\ overlay' = <<>>
            /\ UNCHANGED <<results, k, input_landmark_list>> ]_vars

\* The read failed in the second iteration, after a hand had been classified
\* in the first.
C8_Witness ==
    /\ frame = 2
    /\ valid = FALSE
    /\ pc = "exited"
    /\ calls = <<"cam.read", "print">>
    /\ input_landmark_list # <<>>
    /\ results.multi_hand_landmarks # <<>>

\* C9: for every hand a prediction is made on, a label is drawn iff the
\* argmax class index is below 5, the text is then class_names[argmax], one
\* of "one" .. "five"; for index 5 ("other") nothing is drawn; the index is
\* always within class_names.
C9_Overlay ==
    (frame > 0 /\ valid = TRUE) =>
        /\ Len(result) = Len(results.multi_hand_landmarks)
        /\ Len(overlay) = Len(result)
        /\ \A h \in 1..Len(result) :
              /\ result[h] + 1 \in 1..Len(class_names)
              /\ (overlay[h] # None) <=> (result[h] < 5)
              /\ result[h] < 5 =>
                    /\ overlay[h] = class_names[result[h] + 1]
                    /\ overlay[h] \in {"one", "two", "three", "four", "five"}
              /\ result[h] = 5 => overlay[h] = None
        /\ Count("cv2.putText") = Cardinality({h \in 1..Len(overlay) : overlay[h] # None})

\* A hand was classified as the last labelled class and "five" was drawn.
C9_Witness ==
    /\ frame > 0
    /\ valid = TRUE
    /\ result = <<4>>
    /\ overlay = <<"five">>
    /\ Count("cv2.putText") = 1

\* C10: an iteration whose read succeeds calls the detector exactly once;
\* the normalizer and the model are called iff the detector reported
\* landmarks (once per reported hand); with no landmarks there is no
\* normalization, no prediction, no overlay, and the iteration ends normally
\* in the key poll (followed only by the escape message when the key ends
\* the loop).
C10_Detection ==
    (frame > 0 /\ valid = TRUE) =>
        /\ Count("hands.process") = 1
        /\ Count("calc_landmark_list") = Len(results.multi_hand_landmarks)
        /\ Count("model.predict") = Len(results.multi_hand_landmarks)
        /\ (Count("calc_landmark_list") > 0) <=> (results.multi_hand_landmarks # <<>>)
        /\ (Count("model.predict") > 0) <=> (results.multi_hand_landmarks # <<>>)
        /\ results.multi_hand_landmarks = <<>> =>
              /\ calls = <<"cam.read", "hands.process", "cv2.waitKey">>
                         \o (IF k % 256 = 27 THEN <<"print">> ELSE <<>>)
              /\ result = <<>>
              /\ overlay = <<>>
              /\ pc = IF k % 256 = 27 THEN "exited" ELSE "loop"

\* No hand in the second frame, after a hand in the first: the vector of the
\* first frame is still there and the loop goes on.
C10_Witness ==
    /\ frame = 2
    /\ valid = TRUE
    /\ results.multi_hand_landmarks = <<>>
    /\ input_landmark_list # <<>>
    /\ calls = <<"cam.read", "hands.process", "cv2.waitKey">>
    /\ pc = "loop"

\* ------------------------------------------------- claims: the whole notebook

\* C11: the hand tracker and the camera are acquired exactly once, before the
\* loop; nothing is released while the loop runs; once the loop has been left
\* (by a failed read or by the escape key) the release is the next step, and
\* after it the tracker has been closed, the camera released and the windows
\* destroyed exactly once each.
C11_Resources ==
    /\ pc \in {"loop", "exited", "released"} =>
          resources.hands_opened = 1 /\ resources.cam_opened = 1
    /\ pc \notin {"loop", "exited", "released"} => resources = NoResources
    /\ pc \in {"loop", "exited"} =>
          /\ resources.hands_closed = 0
          /\ resources.cam_released = 0
          /\ resources.windows_destroyed = 0
    /\ pc = "exited" => ENABLED ReleaseResources
    /\ pc = "released" =>
          /\ resources.hands_closed = 1
          /\ resources.cam_released = 1
          /\ resources.windows_destroyed = 1

\* Everything was released after the loop ended on a failed read in its
\* second iteration.
C11_Witness ==
    /\ pc = "released"
    /\ frame = 2
    /\ valid = FALSE
    /\ resources.hands_closed = 1
    /\ resources.cam_released = 1
    /\ resources.windows_destroyed = 1


\* s is an initial part of t.
IsPrefix(s, t) == Len(s) <= Len(t) /\ \A n \in 1..Len(s) : s[n] = t[n]

\* C13: the model operations happen once each and in the order Sequential(),
\* fit, save, load_model; the file holds the model as it was after the one
\* fit; from the start of the capture loop on nothing is fitted or saved any
\* more, and every model.predict is made with the name model bound to what
\* load_model returned for that file.
C13_Lifecycle ==
    /\ IsPrefix(lifecycle, <<"Sequential", "fit", "save", "load_model">>)
    /\ model_file # <<>> =>
          /\ model_file = <<[origin |-> "Sequential", fits |-> 1]>>
          /\ Len(lifecycle) >= 3
    /\ pc \in {"loop", "exited", "released"} =>
          /\ lifecycle = <<"Sequential", "fit", "save", "load_model">>
          /\ model = [origin |-> "load_model", fits |-> 1]
    /\ Count("model.predict") > 0 =>
          /\ pc \in {"loop", "exited", "released"}
          /\ model.origin = "load_model"
          /\ model.fits = model_file[1].fits

\* A hand was classified in the second iteration of the loop, after the four
\* model operations.
C13_Witness ==
    /\ frame = 2
    /\ Count("model.predict") = 1
    /\ model.origin = "load_model"
    /\ lifecycle = <<"Sequential", "fit", "save", "load_model">>
    /\ Len(x) = 2

\* ----------------------------------------- claims: the data preparation cell

\* np.argmax of a row: the 0-based index of its first largest entry.
ArgMax(row) ==
    (CHOOSE c \in 1..Len(row) :
        /\ \A d \in 1..Len(row) : row[d] <= row[c]
        /\ \A d \in 1..(c - 1) : row[d] < row[c]) - 1

\* The labels have been one-hot encoded.
Encoded == pc \in {"parse", "normalize", "done"}

\* C12: every row of y holds exactly one 1 (and 0 elsewhere), and the argmax
\* of row i is the integer in column 0 of the CSV row of sample i.
C12_OneHot ==
    Encoded =>
        /\ Len(y) = Len(data)
        /\ \A i \in 1..Len(y) :
              /\ \A c \in 1..Len(y[i]) : y[i][c] \in {0, 1}
              /\ Cardinality({c \in 1..Len(y[i]) : y[i][c] = 1}) = 1
              /\ ArgMax(y[i]) = StrToInt(data[i].label)

\* Two samples of classes 5 and 2 have been encoded.
C12_Witness ==
    /\ pc = "done"
    /\ Len(data) = 2
    /\ data[1].label = "5"
    /\ data[2].label = "2"
    /\ y = << <<0, 0, 0, 0, 0, 1>>, <<0, 0, 1, 0, 0, 0>> >>



\* Component c (1: x, 2: y) of row i has a single value over all landmarks.
DegenerateIn(i, c) == Cardinality(OrigVals(i, c)) = 1

\* C14 as stated: a sample with all x equal or all y equal stops the run with
\* an error, so no feature array and no live feature vector ever exists for
\* such a sample.
C14_Original ==
    /\ pc = "done" => \A i \in 1..Len(data) : NonDegenerate(i)
    /\ live_row # 0 => NonDegenerate(live_row)

\* C14: neither path guards against max = min.  For a sample whose x values
\* (or y values) are all equal the division is 0/0 on floats, which is nan and
\* raises nothing: every normalized value of that component is nan, in the
\* training array, in the row of x and in calc_landmark_list's result, while
\* the sample is kept, its vector has full length, and handedness and z stay
\* finite.
C14_DegenerateNaN ==
    \A i \in 1..Len(data) : \A c \in {1, 2} :
        DegenerateIn(i, c) =>
            /\ TrainNormalized(i) =>
                  \A j \in 1..NumLandmarks :
                      /\ hand_samples[i][j][c] = NaN
                      /\ IsFinite(hand_samples[i][j][3])
            /\ pc = "done" =>
                  /\ Len(x) = Len(data)
                  /\ Len(x[i]) = 1 + 3 * NumLandmarks
                  /\ IsFinite(x[i][1])
                  /\ FeatureVals(x[i], c) = {NaN}
                  /\ \A v \in FeatureVals(x[i], 3) : IsFinite(v)
            /\ live_row = i =>
                  /\ Len(input_landmark_list) = 1 + 3 * NumLandmarks
                  /\ IsFinite(input_landmark_list[1])
                  /\ FeatureVals(input_landmark_list, c) = {NaN}
                  /\ \A v \in FeatureVals(input_landmark_list, 3) : IsFinite(v)

\* Reached: a sample with all x equal and two y values went through both
\* paths; its x features are nan and its y features are 0 and 1.
C14_Witness ==
    /\ pc = "done"
    /\ live_row # 0
    /\ DegenerateIn(live_row, 1)
    /\ ~DegenerateIn(live_row, 2)
    /\ FeatureVals(x[live_row], 1) = {NaN}
    /\ FeatureVals(input_landmark_list, 1) = {NaN}
    /\ Zero \in FeatureVals(x[live_row], 2)
    /\ One \in FeatureVals(input_landmark_list, 2)


\* ------------------------------------------------ claims: one iteration

\* The place of a call in the order capture, detect, (draw, normalize,
\* predict, overlay), display, key poll, escape message.
StepRank(c) ==
    CASE c = "cam.read" -> 1
      [] c = "hands.process" -> 2
      [] c = "mp_drawing.draw_landmarks" -> 3
      [] c = "calc_landmark_list" -> 4
      [] c = "model.predict" -> 5
      [] c = "cv2.putText" -> 6
      [] c = "cv2.imshow" -> 7
      [] c = "cv2.waitKey" -> 8
      [] c = "print" -> 9
      [] OTHER -> 0

\* The iteration that made these calls has ended (or none has run yet).
IterationOver(cs) == cs = <<>> \/ cs[Len(cs)] \in {"cv2.waitKey", "print"}

\* The key poll is the last call of the iteration, but for the message
\* printed when the polled key ends the loop.
PollIsLastStep(cs, key) ==
    IF key % 256 = 27
    THEN Len(cs) >= 2 /\ cs[Len(cs) - 1] = "cv2.waitKey" /\ cs[Len(cs)] = "print"
    ELSE Len(cs) >= 1 /\ cs[Len(cs)] = "cv2.waitKey"

\* C16: every step is one whole iteration, begun only after the previous
\* iteration's key poll has returned; an iteration whose read succeeds makes
\* its calls in the order capture, detect, (normalize, predict, overlay),
\* display, key poll, each at most once, the poll being followed only by the
\* escape message when it ends the loop; the vector normalized, the
\* prediction and the overlay are those of this frame's landmarks, and they
\* precede the display.
C16_StepOrder ==
    [][ /\ pc = "loop"
        /\ (calls = <<>> \/ calls[Len(calls)] = "cv2.waitKey")
        /\ frame' = frame + 1
        /\ IterationOver(calls')
        /\ valid' = TRUE =>
              /\ calls'[1] = "cam.read"
              /\ calls'[2] = "hands.process"
              /\ PollIsLastStep(calls', k')
              /\ \A i, j \in 1..Len(calls') :
                    i < j => StepRank(calls'[i]) < StepRank(calls'[j])
              /\ results'.multi_hand_landmarks # <<>> =>
                    /\ input_landmark_list' =
                          CalcLandmarkList(
                              results'.multi_handedness[1],
                              results'.multi_hand_landmarks[Len(results'.multi_hand_landmarks)])
                    /\ overlay' = [h \in 1..Len(result') |-> OverlayText(result'[h])]
                    /\ \E n \in 1..Len(calls') : calls'[n] = "model.predict"
                    /\ \E n \in 1..Len(calls') : calls'[n] = "cv2.imshow" ]_vars

\* A second iteration ran all eight steps and drew "two" on its frame.
C16_Witness ==
    /\ frame = 2
    /\ valid = TRUE
    /\ calls = <<"cam.read", "hands.process", "mp_drawing.draw_landmarks",
                 "calc_landmark_list", "model.predict", "cv2.putText",
                 "cv2.imshow", "cv2.waitKey">>
    /\ result = <<1>>
    /\ overlay = <<"two">>


\* C18: in an iteration whose read succeeds, the frame is shown (once) iff
\* the detector reported hand landmarks; with no landmarks the window is not
\* updated, and in either case the key poll runs once, as the last step (but
\* for the escape message), and its key decides whether the loop goes on.
C18_Display ==
    (frame > 0 /\ valid = TRUE) =>
        /\ (Count("cv2.imshow") = 1) <=> (results.multi_hand_landmarks # <<>>)
        /\ (Count("cv2.imshow") = 0) <=> (results.multi_hand_landmarks = <<>>)
        /\ Count("cv2.waitKey") = 1
        /\ PollIsLastStep(calls, k)
        /\ pc = IF LoopExits(k) THEN "exited" ELSE "loop"

\* A frame without a hand was not shown, and the escape key polled in that
\* same iteration ended the loop.
C18_Witness ==
    /\ frame > 0
    /\ valid = TRUE
    /\ results.multi_hand_landmarks = <<>>
    /\ Count("cv2.imshow") = 0
    /\ Count("cv2.waitKey") = 1
    /\ k = 27
    /\ pc = "exited"

\* C20: in an iteration that predicts, the first entry of the feature vector
\* is the detector's handedness index of the very hand whose landmarks were
\* normalized, for every reported hand; there is at most one reported hand,
\* one prediction and one label overlay per frame.
C20_Handedness ==
    (frame > 0 /\ valid = TRUE) =>
        /\ Len(results.multi_hand_landmarks) <= max_num_hands
        /\ Len(results.multi_handedness) = Len(results.multi_hand_landmarks)
        /\ \A h \in 1..Len(results.multi_hand_landmarks) :
              /\ input_landmark_list[1] = Frac(results.multi_handedness[h], 1)
              /\ input_landmark_list =
                    CalcLandmarkList(results.multi_handedness[h],
                                     results.multi_hand_landmarks[h])
        /\ Count("model.predict") <= 1
        /\ Count("cv2.putText") <= 1
        /\ Len(result) <= 1
        /\ Len(overlay) <= 1

\* The second frame held a hand of handedness index 0: the vector carries
\* that flag, and one prediction and one label overlay were made.
C20_Witness ==
    /\ frame = 2
    /\ valid = TRUE
    /\ results.multi_handedness = <<0>>
    /\ input_landmark_list[1] = Frac(0, 1)
    /\ Count("model.predict") = 1
    /\ Count("cv2.putText") = 1


\* ------------------------------------- claims: pairing and frame effects

\* The values of component c over the landmarks of a CSV row.
RowVals(row, c) == {row.cells[j].lit[c] : j \in 1..Len(row.cells)}

\* What landmark j, component c of a CSV row becomes in a feature vector: x
\* and y rescaled by the row's own bounding box, z as recorded.
RowFeature(row, j, c) ==
    IF c = 3 THEN row.cells[j].lit[3]
    ELSE FDiv(FSub(row.cells[j].lit[c], Lo(RowVals(row, c))),
              FSub(Hi(RowVals(row, c)), Lo(RowVals(row, c))))

\* Row i of y and of x both come from the CSV row r.
DerivedFrom(i, r) ==
    /\ ArgMax(y[i]) = StrToInt(r.label)
    /\ x[i][1] = Frac(StrToInt(r.handed), 1)
    /\ Len(x[i]) = 1 + 3 * Len(r.cells)
    /\ \A j \in 1..Len(r.cells) : \A c \in 1..3 :
          x[i][1 + 3 * (j - 1) + c] = RowFeature(r, j, c)

\* C17: after data preparation x and y have one row per CSV row, and some
\* permutation f of the CSV rows (none dropped, none duplicated) is such that
\* for every i the label of y[i], the handedness x[i][0] and the landmark
\* values x[i][1..63] all derive from CSV row f[i]; f is the shuffle.
C17_Pairing ==
    pc = "done" =>
        /\ Len(x) = Len(csv_rows)
        /\ Len(y) = Len(csv_rows)
        /\ \E f \in Perms(Len(csv_rows)) :
              \A i \in 1..Len(csv_rows) :
                  /\ data[i] = csv_rows[f[i]]
                  /\ DerivedFrom(i, csv_rows[f[i]])

\* The shuffle swapped two rows of different classes, hands and handedness,
\* and row 1 of x and y is the second CSV row.
C17_Witness ==
    /\ pc = "done"
    /\ Len(csv_rows) = 2
    /\ csv_rows[1].label # csv_rows[2].label
    /\ csv_rows[1].cells # csv_rows[2].cells
    /\ data[1] = csv_rows[2]
    /\ DerivedFrom(1, csv_rows[2])
    /\ ~DerivedFrom(1, csv_rows[1])


\* Landmark j, component c (1: x, 2: y) of a sample, rescaled by the bounds
\* of that component over the sample's own landmarks.
RescaledAt(sample, j, c) ==
    LET vals == {sample[n][c] : n \in 1..Len(sample)}
    IN  FDiv(FSub(sample[j][c], Lo(vals)), FSub(Hi(vals), Lo(vals)))

\* C19: a pass of the training loop on sample ix changes nothing but the x
\* and y of that sample: the other samples, the handedness column, the number
\* and order of the landmarks and every z stay as they were, landmark j's new
\* x and y being the rescaled x and y of landmark j; the assembly then puts
\* the handedness at index 0 and the landmarks behind it in order; and
\* calc_landmark_list likewise returns the handedness at index 0, each z as
\* detected, and the rescaled x and y in landmark order.
C19_FrameEffect ==
    [][ /\ (pc = "normalize" /\ ix' = ix + 1) =>
              /\ handedness' = handedness
              /\ Len(hand_samples') = Len(hand_samples)
              /\ \A i \in 1..Len(hand_samples) :
                    i # ix => hand_samples'[i] = hand_samples[i]
              /\ Len(hand_samples'[ix]) = Len(hand_samples[ix])
              /\ \A j \in 1..Len(hand_samples[ix]) :
                    /\ hand_samples'[ix][j][3] = hand_samples[ix][j][3]
                    /\ \A c \in {1, 2} :
                          hand_samples'[ix][j][c] = RescaledAt(hand_samples[ix], j, c)
        /\ (pc = "normalize" /\ pc' = "done") =>
              \A i \in 1..Len(hand_samples) :
                  /\ x'[i][1] = Frac(handedness[i][1], 1)
                  /\ \A j \in 1..NumLandmarks : \A c \in 1..3 :
                        x'[i][1 + 3 * (j - 1) + c] = hand_samples[i][j][c]
                  /\ \A j \in 1..NumLandmarks :
                        x'[i][1 + 3 * (j - 1) + 3] = OrigPts(i)[j][3]
        /\ (pc = "done" /\ live_row' # live_row) =>
              /\ input_landmark_list'[1] = Frac(StrToInt(data[live_row'].handed), 1)
              /\ \A j \in 1..NumLandmarks :
                    /\ input_landmark_list'[1 + 3 * (j - 1) + 3] = OrigPts(live_row')[j][3]
                    /\ \A c \in {1, 2} :
                          input_landmark_list'[1 + 3 * (j - 1) + c] =
                              RescaledAt(OrigPts(live_row'), j, c)
      ]_vars

\* The loop has rescaled the first of two samples: its x and y changed, its
\* z values, one of them outside [0, 1], did not, and the second sample is
\* still as parsed.
C19_Witness ==
    /\ pc = "normalize"
    /\ ix = 2
    /\ Len(hand_samples) = 2
    /\ hand_samples[1] # OrigPts(1)
    /\ hand_samples[2] = OrigPts(2)
    /\ \A j \in 1..NumLandmarks : hand_samples[1][j][3] = OrigPts(1)[j][3]
    /\ \E j \in 1..NumLandmarks : ~FLe(hand_samples[1][j][3], One)

====
